---- MODULE Spec2Model ----
(***************************************************************************)
(* Incident verification scoring (backend/app/services/verification.py),   *)
(* the submission and review handlers that use it                          *)
(* (backend/app/api/routes/incidents.py) and the reporter records          *)
(* (backend/app/models/user.py).                                           *)
(*                                                                         *)
(* Numbers.  Python floats are modelled as exact rationals [n, d] in       *)
(* lowest terms, so equal values have equal representations and the        *)
(* comparisons are exact.  Coordinates are integers in hundredths of a     *)
(* degree, instants are integers in hours.                                 *)
(***************************************************************************)
EXTENDS Integers, Sequences, FiniteSets, TLC

VARIABLES
    now,        \* the wall clock read by datetime.now(timezone.utc), in hours
    incidents,  \* rows of the incidents table, in insertion order
    users,      \* rows of the users table, in insertion order
    response,   \* what the last handler answered
    lastEval,   \* the evaluation made by the last create_incident
    call,       \* the last direct call of an evaluator, with its result
    prevCall,   \* the call before it, when it had the same arguments
    sessions,   \* per worker, the database session of the handler it is inside
    reviewed,   \* the incidents whose review has reached the trust updater
    clock,      \* the wall clock of the authentication service, in seconds
    account,    \* the login columns of the registered user's row
    twofa,      \* that user's two_factor_auth row, or None
    user_sessions,  \* the user_sessions table
    client      \* the token responses the user's client holds

\* the state of the authentication service
authVars == <<clock, account, twofa, user_sessions, client>>

vars == <<now, incidents, users, response, lastEval, call, prevCall, sessions, reviewed, authVars>>

----------------------------------------------------------------------------
(* Bounds of the model. *)

MaxNow == 12        \* the clock stops advancing here
MaxIncidents == 3   \* rows the incidents table may hold
MaxFill == 20       \* filler words of the longest description drawn
MaxReports == 21       \* reports_submitted of a reporter handed to update_trust_score
MaxReviews == 2         \* review decisions recorded for one reporter
MaxTrustIncidents == 2
MaxEditIncidents == 1
MaxClock == 901
MaxSeconds == 1
MaxTokens == 2
MaxGenerations == 2
BackupCodeCount == 2  \* incidents stored while the trust feedback loop is explored

----------------------------------------------------------------------------
(* Float arithmetic, exact. *)

Abs(x) == IF x < 0 THEN -x ELSE x

RECURSIVE GCD(_, _)
GCD(a, b) == IF b = 0 THEN a ELSE GCD(b, a % b)

Rat(num, den) ==
    LET g == GCD(Abs(num), den)
    IN  [n |-> num \div g, d |-> den \div g]

RAdd(a, b) == Rat(a.n * b.d + b.n * a.d, a.d * b.d)
RMul(a, b) == Rat(a.n * b.n, a.d * b.d)
RDiv(a, b) == Rat(a.n * b.d, a.d * b.n)
RLeq(a, b) == a.n * b.d <= b.n * a.d
RLt(a, b) == a.n * b.d < b.n * a.d
RMin(a, b) == IF RLt(b, a) THEN b ELSE a
RMax(a, b) == IF RLt(a, b) THEN b ELSE a

\* a decimal literal with two places: Dec(20) is 0.20
Dec(hundredths) == Rat(hundredths, 100)

----------------------------------------------------------------------------
(* Configuration. *)

NIGERIA_BOUNDS == [min_lat |-> 400, max_lat |-> 1400, min_lon |-> 250, max_lon |-> 1500]

AUTO_VERIFY_THRESHOLD == Dec(80)

IncidentType ==
    {"armed_attack", "kidnapping", "banditry", "insurgent_attack",
     "farmer_herder_clash", "robbery", "communal_clash", "cattle_rustling",
     "bomb_blast", "shooting", "other"}

HoursPerDay == 24

----------------------------------------------------------------------------
(* Text: a str is a sequence of one-character strings. *)

Whitespace == {" ", "\t"}

UpperCase == <<"A","B","C","D","E","F","G","H","I","J","K","L","M",
               "N","O","P","Q","R","S","T","U","V","W","X","Y","Z">>
LowerCase == <<"a","b","c","d","e","f","g","h","i","j","k","l","m",
               "n","o","p","q","r","s","t","u","v","w","x","y","z">>

LowerMap ==
    [c \in {UpperCase[i] : i \in 1..Len(UpperCase)} |->
        LowerCase[CHOOSE i \in 1..Len(UpperCase) : UpperCase[i] = c]]

LowerChar(c) == IF c \in DOMAIN LowerMap THEN LowerMap[c] ELSE c

\* str.lower()
Lower(text) == [i \in 1..Len(text) |-> LowerChar(text[i])]

\* str.split(): the maximal runs of non-whitespace characters.  start is the
\* index where the current word began, 0 between words.
RECURSIVE SplitFrom(_, _, _, _)
SplitFrom(text, i, start, words) ==
    IF i > Len(text)
    THEN IF start = 0 THEN words ELSE Append(words, SubSeq(text, start, Len(text)))
    ELSE IF text[i] \in Whitespace
         THEN IF start = 0
              THEN SplitFrom(text, i + 1, 0, words)
              ELSE SplitFrom(text, i + 1, 0, Append(words, SubSeq(text, start, i - 1)))
         ELSE SplitFrom(text, i + 1, IF start = 0 THEN i ELSE start, words)

Split(text) == SplitFrom(text, 1, 0, <<>>)

\* ' '.join(words)
RECURSIVE Join(_)
Join(words) ==
    IF words = <<>> THEN <<>>
    ELSE IF Len(words) = 1 THEN words[1]
    ELSE words[1] \o <<" ">> \o Join(Tail(words))

\* str.strip()
RECURSIVE FirstKept(_, _)
FirstKept(text, i) ==
    IF i > Len(text) THEN i
    ELSE IF text[i] \in Whitespace THEN FirstKept(text, i + 1) ELSE i

RECURSIVE LastKept(_, _)
LastKept(text, i) ==
    IF i < 1 THEN 0
    ELSE IF text[i] \in Whitespace THEN LastKept(text, i - 1) ELSE i

Strip(text) == SubSeq(text, FirstKept(text, 1), LastKept(text, Len(text)))

\* keyword in text
Contains(text, keyword) ==
    \E i \in 1..(Len(text) - Len(keyword) + 1) :
        /\ text[i] = keyword[1]
        /\ SubSeq(text, i, i + Len(keyword) - 1) = keyword

detail_keywords ==
    << <<"a","r","m","e","d">>, <<"m","e","n">>,
       <<"a","t","t","a","c","k","e","d">>, <<"v","i","l","l","a","g","e">>,
       <<"t","o","w","n">>, <<"k","i","l","l","e","d">>,
       <<"i","n","j","u","r","e","d">>, <<"g","u","n","m","e","n">>,
       <<"s","o","l","d","i","e","r","s">>, <<"p","o","l","i","c","e">>,
       <<"m","o","r","n","i","n","g">>, <<"e","v","e","n","i","n","g">>,
       <<"n","i","g","h","t">>, <<"r","o","a","d">>,
       <<"m","a","r","k","e","t">>, <<"c","h","u","r","c","h">>,
       <<"m","o","s","q","u","e">>, <<"s","c","h","o","o","l">>,
       <<"f","l","e","d">>, <<"c","a","s","u","a","l","t","i","e","s">> >>

----------------------------------------------------------------------------
(* The evaluators. *)

\* a variant that takes every point for a Nigerian one
validate_nigerian_coordinates_any(longitude, latitude) == TRUE

validate_nigerian_coordinates(longitude, latitude) ==
    /\ NIGERIA_BOUNDS.min_lon <= longitude
    /\ longitude <= NIGERIA_BOUNDS.max_lon
    /\ NIGERIA_BOUNDS.min_lat <= latitude
    /\ latitude <= NIGERIA_BOUNDS.max_lat

\* a variant that hands the coordinates to the bounds test in the wrong order
check_spatial_plausibility_swapped(latitude, longitude, incident_type) ==
    IF ~validate_nigerian_coordinates(latitude, longitude)
    THEN Dec(0)
    ELSE IF incident_type \in {"insurgent_attack", "bomb_blast"}
    THEN IF 1050 <= latitude /\ latitude <= 1390 /\ 1100 <= longitude /\ longitude <= 1450
         THEN Dec(90)
         ELSE Dec(60)
    ELSE IF incident_type \in {"banditry", "kidnapping", "cattle_rustling"}
    THEN IF 1100 <= latitude /\ latitude <= 1350 /\ 400 <= longitude /\ longitude <= 900
         THEN Dec(90)
         ELSE Dec(70)
    ELSE IF incident_type = "farmer_herder_clash"
    THEN IF 650 <= latitude /\ latitude <= 1000 /\ 700 <= longitude /\ longitude <= 1000
         THEN Dec(90)
         ELSE Dec(70)
    ELSE Dec(70)

check_spatial_plausibility(latitude, longitude, incident_type) ==
    IF ~validate_nigerian_coordinates(longitude, latitude)
    THEN Dec(0)
    ELSE IF incident_type \in {"insurgent_attack", "bomb_blast"}
    THEN IF 1050 <= latitude /\ latitude <= 1390 /\ 1100 <= longitude /\ longitude <= 1450
         THEN Dec(90)
         ELSE Dec(60)
    ELSE IF incident_type \in {"banditry", "kidnapping", "cattle_rustling"}
    THEN IF 1100 <= latitude /\ latitude <= 1350 /\ 400 <= longitude /\ longitude <= 900
         THEN Dec(90)
         ELSE Dec(70)
    ELSE IF incident_type = "farmer_herder_clash"
    THEN IF 650 <= latitude /\ latitude <= 1000 /\ 700 <= longitude /\ longitude <= 1000
         THEN Dec(90)
         ELSE Dec(70)
    ELSE Dec(70)

\* A datetime is [t, aware]; the clock is timezone-aware, and comparing or
\* subtracting an aware and a naive datetime raises TypeError.
TemporalRaises(timestamp) == ~timestamp.aware

\* timedelta.days of a non-negative difference
DaysOld(timestamp) == (now - timestamp.t) \div HoursPerDay

\* a variant without the test for a timestamp in the future
check_temporal_plausibility_nofuture(timestamp, incident_type) ==
    IF DaysOld(timestamp) > 7 THEN Dec(40)
    ELSE IF DaysOld(timestamp) > 3 THEN Dec(60)
    ELSE IF DaysOld(timestamp) > 1 THEN Dec(80)
    ELSE Dec(100)

check_temporal_plausibility(timestamp, incident_type) ==
    IF timestamp.t > now THEN Dec(0)
    ELSE IF DaysOld(timestamp) > 7 THEN Dec(40)
    ELSE IF DaysOld(timestamp) > 3 THEN Dec(60)
    ELSE IF DaysOld(timestamp) > 1 THEN Dec(80)
    ELSE Dec(100)

\* ST_DWithin on SRID 4326 geometries: planar distance in degrees
ST_DWithin(lat1, lon1, lat2, lon2, radius) ==
    (lat1 - lat2) * (lat1 - lat2) + (lon1 - lon2) * (lon1 - lon2) <= radius * radius

\* a variant whose time window leaves its two ends out
NearbyRows_open(latitude, longitude, timestamp, incident_type, db) ==
    {i \in 1..Len(db) :
        /\ ST_DWithin(db[i].latitude, db[i].longitude, latitude, longitude, 9)
        /\ timestamp.t - 6 < db[i].timestamp.t
        /\ db[i].timestamp.t < timestamp.t + 6
        /\ db[i].incident_type = incident_type}

\* the rows the corroboration query selects from the incidents table db
NearbyRows(latitude, longitude, timestamp, incident_type, db) ==
    {i \in 1..Len(db) :
        /\ ST_DWithin(db[i].latitude, db[i].longitude, latitude, longitude, 9)
        /\ timestamp.t - 6 <= db[i].timestamp.t
        /\ db[i].timestamp.t <= timestamp.t + 6
        /\ db[i].incident_type = incident_type}

nearby_count(latitude, longitude, timestamp, incident_type, db) ==
    Cardinality(NearbyRows(latitude, longitude, timestamp, incident_type, db))

\* a variant that wants more than three reports for the top score
CrossScore_above3(count) ==
    IF count > 3 THEN Dec(100)
    ELSE IF count = 2 THEN Dec(90)
    ELSE IF count = 1 THEN Dec(70)
    ELSE Dec(50)

CrossScore(count) ==
    IF count >= 3 THEN Dec(100)
    ELSE IF count = 2 THEN Dec(90)
    ELSE IF count = 1 THEN Dec(70)
    ELSE Dec(50)

check_cross_verification(latitude, longitude, timestamp, incident_type, db) ==
    CrossScore(nearby_count(latitude, longitude, timestamp, incident_type, db))

word_count(description) == Len(Split(description))

keyword_matches(description) ==
    LET lowered == Lower(description)
    IN  Cardinality({k \in 1..Len(detail_keywords) :
                        Contains(lowered, Lower(detail_keywords[k]))})

\* a variant whose word-count tests are strict
LengthBonus_strict(words) ==
    IF words > 20 THEN Dec(20)
    ELSE IF words > 10 THEN Dec(10)
    ELSE Dec(0)

LengthBonus(words) ==
    IF words >= 20 THEN Dec(20)
    ELSE IF words >= 10 THEN Dec(10)
    ELSE Dec(0)

KeywordBonus(matches) ==
    IF matches >= 3 THEN Dec(30)
    ELSE IF matches >= 1 THEN Dec(15)
    ELSE Dec(0)

check_description_quality(description) ==
    IF description = <<>> THEN Dec(0)
    ELSE LET stripped == Strip(description)
         IN  RMin(Dec(100),
                  RAdd(RAdd(Dec(50), LengthBonus(word_count(stripped))),
                       KeywordBonus(keyword_matches(stripped))))

SPATIAL_WEIGHT == Dec(20)
\* a variant with another weight for the temporal factor
TEMPORAL_WEIGHT_other == Dec(25)
TEMPORAL_WEIGHT == Dec(15)
REPORTER_WEIGHT == Dec(30)
CROSS_WEIGHT == Dec(25)
DESCRIPTION_WEIGHT == Dec(10)

\* a variant that does not clamp
Clamp01_none(x) == x

\* max(0.0, min(1.0, final_score))
Clamp01(x) == RMax(Dec(0), RMin(Dec(100), x))

\* [raised, value]: raised when check_temporal_plausibility raises TypeError
calculate_verification_score(incident_type, latitude, longitude, timestamp, reporter_trust_score, description, db) ==
    IF TemporalRaises(timestamp)
    THEN [raised |-> TRUE, value |-> Dec(0)]
    ELSE
    LET spatial_score == check_spatial_plausibility(latitude, longitude, incident_type)
        score1 == RAdd(Dec(0), RMul(spatial_score, SPATIAL_WEIGHT))
        weight1 == RAdd(Dec(0), SPATIAL_WEIGHT)
        temporal_score == check_temporal_plausibility(timestamp, incident_type)
        score2 == RAdd(score1, RMul(temporal_score, TEMPORAL_WEIGHT))
        weight2 == RAdd(weight1, TEMPORAL_WEIGHT)
        score3 == RAdd(score2, RMul(reporter_trust_score, REPORTER_WEIGHT))
        weight3 == RAdd(weight2, REPORTER_WEIGHT)
        cross_verify_score ==
            check_cross_verification(latitude, longitude, timestamp, incident_type, db)
        score4 == RAdd(score3, RMul(cross_verify_score, CROSS_WEIGHT))
        weight4 == RAdd(weight3, CROSS_WEIGHT)
        description_score == check_description_quality(description)
        score5 == RAdd(score4, RMul(description_score, DESCRIPTION_WEIGHT))
        weight_sum == RAdd(weight4, DESCRIPTION_WEIGHT)
        final_score ==
            IF RLt(Dec(0), weight_sum) THEN RDiv(score5, weight_sum) ELSE Dec(50)
    IN  [raised |-> FALSE, value |-> Clamp01(final_score)]

----------------------------------------------------------------------------
(* Reporter trust (User.update_trust_score). *)

\* a variant whose weight is full at 10 reports
volume_weight_ten(reports_submitted) == RMin(Rat(reports_submitted, 10), Dec(100))

\* min(self.reports_submitted / 20, 1.0)
volume_weight(reports_submitted) == RMin(Rat(reports_submitted, 20), Dec(100))

\* (verified_rate * 0.8) + 0.2
base_score(verified_rate) == RAdd(RMul(verified_rate, Dec(80)), Dec(20))

\* a variant without a penalty for rejections
penalty_none(rejected_rate) == Dec(0)

\* rejected_rate * 0.3
penalty(rejected_rate) == RMul(rejected_rate, Dec(30))

\* a - b
RSub(a, b) == RAdd(a, RMul(Rat(-1, 1), b))

\* the trust_score update_trust_score assigns for the three counters
update_trust_score(reports_submitted, reports_verified, reports_rejected) ==
    IF reports_submitted = 0
    THEN Dec(50)
    ELSE LET verified_rate == Rat(reports_verified, reports_submitted)
             rejected_rate == Rat(reports_rejected, reports_submitted)
             weight == volume_weight(reports_submitted)
         IN  RMax(Dec(0), RMin(Dec(100),
                 RAdd(RMul(RSub(base_score(verified_rate), penalty(rejected_rate)), weight),
                      RMul(Dec(50), RSub(Dec(100), weight)))))

----------------------------------------------------------------------------
(* Request validation and sanitization. *)

\* IncidentCreate: description min_length 10, validate_description (which
\* returns the stripped text), and PointGeometry.validate_coordinates
RequestValid(p) ==
    /\ Len(p.description) >= 10
    /\ Len(Strip(p.description)) >= 10
    /\ -18000 <= p.longitude /\ p.longitude <= 18000
    /\ -9000 <= p.latitude /\ p.latitude <= 9000

\* bleach.clean leaves a text without markup as it is (the texts drawn here
\* hold letters and whitespace only); then the whitespace is normalised
sanitize_text_field(text) ==
    IF text = <<>> THEN text ELSE Join(Split(text))

----------------------------------------------------------------------------
(* Inputs. *)

Now0 == 0           \* the clock at the start
TickHours == 12     \* the clock advances in steps of this many hours

None == "None"

Aware(t) == [t |-> t, aware |-> TRUE]
Naive(t) == [t |-> t, aware |-> FALSE]

RECURSIVE FillWords(_)
FillWords(k) == IF k = 0 THEN <<>> ELSE Append(FillWords(k - 1), <<"x">>)

\* ten words, none of them a keyword
DescTen == Join(FillWords(10))
DescShort == <<"T","o","o"," ","s","h","o","r","t">>

\* Maiduguri, a point 0.09 degrees east of it, a point 0.07 degrees north and
\* 0.07 degrees west of it, and London
P0 == [latitude |-> 1183, longitude |-> 1315]
P1 == [latitude |-> 1183, longitude |-> 1323]
PFar == [latitude |-> 1190, longitude |-> 1308]
London == [latitude |-> 5150, longitude |-> 0]

Phones == {"+2348012345678"}

Payload(type, point, timestamp, description, phone, anonymous) ==
    [incident_type |-> type, latitude |-> point.latitude, longitude |-> point.longitude,
     timestamp |-> timestamp, description |-> description,
     reporter_phone |-> phone, is_anonymous |-> anonymous]

BasePayload == Payload("insurgent_attack", P0, Aware(0), DescTen, None, FALSE)

\* the base report, and reports that differ from it in type, place, time,
\* description or reporter
Submissions ==
    {BasePayload,
     [BasePayload EXCEPT !.incident_type = "banditry"],
     [BasePayload EXCEPT !.longitude = P1.longitude, !.timestamp = Aware(-6)],
     [BasePayload EXCEPT !.latitude = PFar.latitude, !.longitude = PFar.longitude],
     [BasePayload EXCEPT !.latitude = London.latitude, !.longitude = London.longitude],
     [BasePayload EXCEPT !.timestamp = Aware(7)],
     [BasePayload EXCEPT !.timestamp = Naive(0)],
     [BasePayload EXCEPT !.description = DescShort]}
    \cup {[BasePayload EXCEPT !.reporter_phone = ph] : ph \in Phones}

\* what an administrator may set a trust score to (UserUpdateRequest: 0..1)
AdminTrust == {Dec(95)}

----------------------------------------------------------------------------
(* The handlers. *)

NoCall ==
    [input |-> [fn |-> "none"], done |-> FALSE, raised |-> FALSE,
     result |-> Dec(0), nearby_count |-> -1, at |-> -1]
NoEval == [nearby_count |-> -1]
NoResponse == [status |-> 0]

\* the workers that may be inside a handler at the same time, and the
\* session of a worker that is inside none
Workers == {1, 2}
IdleSession == [pc |-> "idle"]
NoSessions == [w \in Workers |-> IdleSession]

\* a variant that wants the score above the threshold
AutoVerified_strict(verification_score) == RLt(AUTO_VERIFY_THRESHOLD, verification_score)

AutoVerified(verification_score) == RLeq(AUTO_VERIFY_THRESHOLD, verification_score)

\* the Incident row create_incident builds; reporter is a users index or 0
NewIncident(p, sanitized_description, reporter, verification_score) ==
    [incident_type |-> p.incident_type,
     latitude |-> p.latitude,
     longitude |-> p.longitude,
     description |-> sanitized_description,
     timestamp |-> p.timestamp,
     verified |-> AutoVerified(verification_score),
     verification_score |-> verification_score,
     verified_by |-> None,
     reporter_id |-> reporter,
     reporter_phone |-> IF p.is_anonymous THEN p.reporter_phone ELSE None,
     is_anonymous |-> p.is_anonymous]

\* the score create_incident computes for the request p against the table db
ScoreOf(p, reporter_trust_score, db) ==
    calculate_verification_score(
        p.incident_type, p.latitude, p.longitude, p.timestamp,
        reporter_trust_score, sanitize_text_field(Strip(p.description)), db)

WantsReporter(p) == p.reporter_phone # None /\ ~p.is_anonymous

\* db.query(User).filter(User.phone_number == ...).first(): 0 when there is none
FindReporter(phone) ==
    LET found == {u \in 1..Len(users) : users[u].phone_number = phone}
    IN  IF found = {} THEN 0 ELSE CHOOSE u \in found : \A v \in found : u <= v

CreateIncident(p) ==
    /\ Len(incidents) < MaxIncidents
    /\ UNCHANGED <<now, call, prevCall, sessions, reviewed, authVars>>
    /\ LET description == Strip(p.description)
           sanitized_description == sanitize_text_field(description)
           reporter == IF WantsReporter(p) THEN FindReporter(p.reporter_phone) ELSE 0
           reporter_trust_score ==
               IF reporter # 0 THEN users[reporter].trust_score ELSE Dec(50)
           result == ScoreOf(p, reporter_trust_score, incidents)
       IN  IF ~RequestValid(p)
           THEN /\ response' = [status |-> 422]
                /\ UNCHANGED <<incidents, users, lastEval>>
           ELSE IF ~validate_nigerian_coordinates(p.longitude, p.latitude)
           THEN /\ response' = [status |-> 400]
                /\ UNCHANGED <<incidents, users, lastEval>>
           ELSE IF WantsReporter(p) /\ reporter = 0
           THEN \* User(phone_number, trust_score) has no email and no
                \* password_hash, both NOT NULL: db.flush() raises
                /\ response' = [status |-> 500]
                /\ UNCHANGED <<incidents, users, lastEval>>
           ELSE IF result.raised
           THEN \* the session is closed without a commit
                /\ response' = [status |-> 500]
                /\ UNCHANGED <<incidents, users, lastEval>>
           ELSE /\ incidents' = Append(incidents,
                        NewIncident(p, sanitized_description, reporter, result.value))
                /\ users' = IF reporter = 0 THEN users
                            ELSE [users EXCEPT ![reporter].reports_submitted = @ + 1]
                /\ lastEval' = [nearby_count |->
                        nearby_count(p.latitude, p.longitude, p.timestamp,
                                     p.incident_type, incidents)]
                /\ response' = [status |-> 201]

VerifyIncident(i) ==
    /\ i \in 1..Len(incidents)
    /\ UNCHANGED <<now, users, lastEval, call, prevCall, sessions, reviewed, authVars>>
    /\ response' = [status |-> 200]
    /\ IF incidents[i].verified
       THEN UNCHANGED incidents
       ELSE incidents' = [incidents EXCEPT ![i].verified = TRUE,
                                           ![i].verified_by = "admin"]

UnverifyIncident(i) ==
    /\ i \in 1..Len(incidents)
    /\ UNCHANGED <<now, users, lastEval, call, prevCall, sessions, reviewed, authVars>>
    /\ response' = [status |-> 200]
    /\ IF ~incidents[i].verified
       THEN UNCHANGED incidents
       ELSE incidents' = [incidents EXCEPT ![i].verified = FALSE,
                                           ![i].verified_by = None]

\* migrate_data.py copies a reporter of the earlier, phone-keyed schema
MigrateUser(phone) ==
    /\ \A u \in 1..Len(users) : users[u].phone_number # phone
    /\ users' = Append(users,
           [phone_number |-> phone, trust_score |-> Dec(50),
            reports_submitted |-> 0, reports_verified |-> 0, reports_rejected |-> 0])
    /\ UNCHANGED <<now, incidents, response, lastEval, call, prevCall, sessions, reviewed, authVars>>

\* a variant that accepts every number
TrustScoreField_open(trust_score) == TRUE

\* UserUpdateRequest.trust_score: Field(None, ge=0.0, le=1.0)
TrustScoreField(trust_score) == RLeq(Dec(0), trust_score) /\ RLeq(trust_score, Dec(100))

\* PUT /admin/users/{id} with trust_score set
UpdateUser(u, trust_score) ==
    /\ u \in 1..Len(users)
    /\ users' = IF TrustScoreField(trust_score)
                THEN [users EXCEPT ![u].trust_score = trust_score]
                ELSE users
    /\ response' = [status |-> IF TrustScoreField(trust_score) THEN 200 ELSE 422]
    /\ UNCHANGED <<now, incidents, lastEval, call, prevCall, sessions, reviewed, authVars>>

Tick ==
    /\ now + TickHours <= MaxNow
    /\ now' = now + TickHours
    /\ UNCHANGED <<incidents, users, response, lastEval, call, prevCall, sessions, reviewed, authVars>>

\* no time: a locked_until or revoked_at column that is NULL
Never == 0 - 1

\* the users row of a registered user who has verified the e-mail address
RegisteredAccount ==
    [password_hash |-> [bcrypt |-> "Correct#1"], is_active |-> TRUE, email_verified |-> TRUE,
     failed_login_attempts |-> 0, locked_until |-> Never]

\* no two_factor_auth row
NoTwoFactor ==
    [exists |-> FALSE, enabled |-> FALSE, secret |-> 0, generation |-> 0, backup_codes |-> {}]

\* a client that has not logged in
NoTokens == [tokens |-> {}, redeemed |-> {}]

Init ==
    /\ now = Now0
    /\ incidents = <<>>
    /\ users = <<>>
    /\ response = NoResponse
    /\ lastEval = NoEval
    /\ call = NoCall
    /\ prevCall = NoCall
    /\ sessions = NoSessions
    /\ reviewed = {}
    /\ clock = 0
    /\ account = RegisteredAccount
    /\ twofa = NoTwoFactor
    /\ user_sessions = {}
    /\ client = NoTokens

Next ==
    \/ \E p \in Submissions : CreateIncident(p)
    \/ \E i \in 1..MaxIncidents : VerifyIncident(i)
    \/ \E i \in 1..MaxIncidents : UnverifyIncident(i)
    \/ \E ph \in Phones : MigrateUser(ph)
    \/ \E u \in 1..Cardinality(Phones), t \in AdminTrust : UpdateUser(u, t)
    \/ Tick

Spec == Init /\ [][Next]_vars

----------------------------------------------------------------------------
(* Direct calls of the evaluators: the arguments are drawn at the start, the *)
(* call is then made against the clock and the table as they are.            *)

SpatialLatitudes ==
    {399, 400, 649, 650, 1000, 1001, 1049, 1050, 1099, 1100, 1183,
     1350, 1351, 1390, 1391, 1400, 1401, 5150}
SpatialLongitudes ==
    {0, 249, 250, 399, 400, 699, 700, 900, 901, 1000, 1001, 1099, 1100,
     1315, 1450, 1451, 1500, 1501}

ProbeHours ==
    {-200, -193, -192, -191, -180, -169, -168, -167, -97, -96, -95, -84,
     -73, -72, -71, -49, -48, -47, -36, -25, -24, -23, -2, 0, 1, 7, 13, 40}
ProbeTimes == {Aware(t) : t \in ProbeHours} \cup {Naive(0)}

\* phrases with the number of detail keywords found in them as substrings:
\* "Gunmen" holds gunmen and men, "documents" holds men
KeywordPhrases ==
    {[words |-> <<>>, matches |-> 0],
     [words |-> << <<"a","r","m","e","d">> >>, matches |-> 1],
     [words |-> << <<"d","o","c","u","m","e","n","t","s">> >>, matches |-> 1],
     [words |-> << <<"G","u","n","m","e","n">> >>, matches |-> 2],
     [words |-> << <<"a","r","m","e","d">>, <<"V","I","L","L","A","G","E">> >>, matches |-> 2],
     [words |-> << <<"g","u","n","m","e","n">>, <<"f","l","e","d">> >>, matches |-> 3],
     [words |-> << <<"A","r","m","e","d">>, <<"m","e","n">>, <<"a","t","t","a","c","k","e","d">>,
                   <<"v","i","l","l","a","g","e">> >>, matches |-> 4]}

\* a text of k filler words followed by a phrase, with the facts it was built to have
BuiltText(k, phrase) ==
    [text |-> Join(FillWords(k) \o phrase.words),
     words |-> k + Len(phrase.words), matches |-> phrase.matches]

\* the same with whitespace around it
Padded(built) == [built EXCEPT !.text = <<" ", "\t">> \o built.text \o <<" ">>]

DescriptionTexts ==
    {BuiltText(k, ph) : k \in 0..MaxFill, ph \in KeywordPhrases}
    \cup {Padded(BuiltText(k, ph)) : k \in {0, 10}, ph \in KeywordPhrases}

SpatialInputs ==
    {[fn |-> "check_spatial_plausibility", latitude |-> la, longitude |-> lo,
      incident_type |-> ty] :
        la \in SpatialLatitudes, lo \in SpatialLongitudes, ty \in IncidentType}

TemporalInputs ==
    {[fn |-> "check_temporal_plausibility", timestamp |-> ts] : ts \in ProbeTimes}

CrossInputs ==
    {[fn |-> "check_cross_verification", latitude |-> pt.latitude,
      longitude |-> pt.longitude, timestamp |-> Aware(t), incident_type |-> ty] :
        pt \in {P0, P1, PFar}, t \in {-7, -6, 0, 6, 7},
        ty \in {"insurgent_attack", "banditry"}}

DescriptionInputs ==
    {[fn |-> "check_description_quality", description |-> b.text,
      words |-> b.words, matches |-> b.matches] : b \in DescriptionTexts}

\* counters handed to update_trust_score: verified may exceed submitted, as
\* in the rows scripts/seed_database.py writes
TrustInputs ==
    {[fn |-> "update_trust_score", reports_submitted |-> sub,
      reports_verified |-> ver, reports_rejected |-> rej] :
        sub \in 0..MaxReports, ver \in 0..(MaxReports + 5), rej \in 0..MaxReports}

\* the inputs among them with the counters of a reporter whose reviewed
\* reports are among the submitted ones, or with five more verified than that
TrustProbes ==
    {input \in TrustInputs :
        /\ input.reports_rejected <= input.reports_submitted
        /\ input.reports_verified \in
               {0, 1, 8, input.reports_submitted, input.reports_submitted + 5}}

Lagos == [latitude |-> 652, longitude |-> 338]

\* trust scores handed to the aggregator, some outside [0,1]
ProbeTrust == {Rat(-1, 2), Dec(0), Dec(50), Dec(95), Dec(100), Rat(3, 2)}

ScoreInputs ==
    {[fn |-> "calculate_verification_score", incident_type |-> ty,
      latitude |-> pt.latitude, longitude |-> pt.longitude, timestamp |-> ts,
      reporter_trust_score |-> tr, description |-> b.text] :
        ty \in {"insurgent_attack", "banditry", "other"},
        pt \in {P0, Lagos, London},
        ts \in {Aware(-200), Aware(-36), Aware(0), Aware(7), Naive(0)},
        tr \in ProbeTrust,
        b \in {BuiltText(0, [words |-> <<>>, matches |-> 0]),
               BuiltText(10, [words |-> <<>>, matches |-> 0]),
               BuiltText(MaxFill, CHOOSE ph \in KeywordPhrases : ph.matches = 4)}}

\* anonymous reports, submitted one after the other at the start
SeedSubmissions ==
    << BasePayload,
       [BasePayload EXCEPT !.incident_type = "banditry"],
       [BasePayload EXCEPT !.longitude = P1.longitude, !.timestamp = Aware(-6)],
       [BasePayload EXCEPT !.latitude = PFar.latitude, !.longitude = PFar.longitude],
       [BasePayload EXCEPT !.timestamp = Aware(-6)],
       BasePayload >>

RECURSIVE SeedStore(_)
SeedStore(k) ==
    IF k = 0 THEN <<>>
    ELSE LET db == SeedStore(k - 1)
             p == SeedSubmissions[k]
         IN  Append(db, NewIncident(p, sanitize_text_field(Strip(p.description)), 0,
                                    ScoreOf(p, Dec(50), db).value))

UsesStore(input) ==
    input.fn \in {"check_cross_verification", "calculate_verification_score"}

Pending(input) == [NoCall EXCEPT !.input = input]

ApplySpatial ==
    /\ call.input.fn = "check_spatial_plausibility"
    /\ ~call.done
    /\ call' = [call EXCEPT
           !.done = TRUE, !.at = now,
           !.result = check_spatial_plausibility(
                          call.input.latitude, call.input.longitude, call.input.incident_type)]
    /\ UNCHANGED <<now, incidents, users, response, lastEval, prevCall, sessions, reviewed, authVars>>

ApplyTemporal ==
    /\ call.input.fn = "check_temporal_plausibility"
    /\ ~call.done
    /\ call' = IF TemporalRaises(call.input.timestamp)
               THEN [call EXCEPT !.done = TRUE, !.at = now, !.raised = TRUE]
               ELSE [call EXCEPT
                        !.done = TRUE, !.at = now,
                        !.result = check_temporal_plausibility(call.input.timestamp, "other")]
    /\ UNCHANGED <<now, incidents, users, response, lastEval, prevCall, sessions, reviewed, authVars>>

ApplyCross ==
    /\ call.input.fn = "check_cross_verification"
    /\ ~call.done
    /\ call' = [call EXCEPT
           !.done = TRUE, !.at = now,
           !.nearby_count = nearby_count(
                                call.input.latitude, call.input.longitude,
                                call.input.timestamp, call.input.incident_type, incidents),
           !.result = check_cross_verification(
                          call.input.latitude, call.input.longitude,
                          call.input.timestamp, call.input.incident_type, incidents)]
    /\ UNCHANGED <<now, incidents, users, response, lastEval, prevCall, sessions, reviewed, authVars>>

ApplyDescription ==
    /\ call.input.fn = "check_description_quality"
    /\ ~call.done
    /\ call' = [call EXCEPT
           !.done = TRUE, !.at = now,
           !.result = check_description_quality(call.input.description)]
    /\ UNCHANGED <<now, incidents, users, response, lastEval, prevCall, sessions, reviewed, authVars>>

ApplyTrust ==
    /\ call.input.fn = "update_trust_score"
    /\ ~call.done
    /\ call' = [call EXCEPT
           !.done = TRUE, !.at = now,
           !.result = update_trust_score(
                          call.input.reports_submitted, call.input.reports_verified,
                          call.input.reports_rejected)]
    /\ UNCHANGED <<now, incidents, users, response, lastEval, prevCall, sessions, reviewed, authVars>>

\* the aggregator may be called again with the same arguments
ApplyScore ==
    /\ call.input.fn = "calculate_verification_score"
    /\ LET r == calculate_verification_score(
                    call.input.incident_type, call.input.latitude, call.input.longitude,
                    call.input.timestamp, call.input.reporter_trust_score,
                    call.input.description, incidents)
       IN  call' = [call EXCEPT !.done = TRUE, !.at = now,
                                !.raised = r.raised, !.result = r.value]
    /\ prevCall' = IF call.done THEN call ELSE prevCall
    /\ UNCHANGED <<now, incidents, users, response, lastEval, sessions, reviewed, authVars>>

InitFn ==
    /\ now = Now0
    /\ \E input \in SpatialInputs \cup TemporalInputs \cup CrossInputs
                    \cup DescriptionInputs \cup ScoreInputs \cup TrustProbes :
          /\ call = Pending(input)
          /\ incidents \in IF UsesStore(input)
                           THEN {SeedStore(k) : k \in 0..Len(SeedSubmissions)}
                           ELSE {<<>>}
    /\ users = <<>>
    /\ response = NoResponse
    /\ lastEval = NoEval
    /\ prevCall = NoCall
    /\ sessions = NoSessions
    /\ reviewed = {}
    /\ clock = 0
    /\ account = RegisteredAccount
    /\ twofa = NoTwoFactor
    /\ user_sessions = {}
    /\ client = NoTokens

NextFn ==
    \/ ApplySpatial
    \/ ApplyTemporal
    \/ ApplyCross
    \/ ApplyDescription
    \/ ApplyScore
    \/ ApplyTrust
    \/ Tick

SpecFn == InitFn /\ [][NextFn]_vars

----------------------------------------------------------------------------
(* The reporter trust feedback loop: submissions by named reporters, review *)
(* decisions, the trust updater and the administrator's override.           *)

\* a point no map holds
OffGlobe == [latitude |-> 9500, longitude |-> 0]

NamedPayload == [BasePayload EXCEPT !.reporter_phone = CHOOSE ph \in Phones : TRUE]

\* a named and an anonymous report from Maiduguri, and named reports from
\* London (one of them with a description too short) and from off the globe
TrustSubmissions ==
    {NamedPayload,
     BasePayload,
     [NamedPayload EXCEPT !.latitude = London.latitude, !.longitude = London.longitude],
     [NamedPayload EXCEPT !.latitude = London.latitude, !.longitude = London.longitude,
                          !.description = DescShort],
     [NamedPayload EXCEPT !.latitude = OffGlobe.latitude, !.longitude = OffGlobe.longitude]}

\* trust scores an administrator may send, one of them out of range
AdminTrustProbe == {Dec(95), Rat(3, 2)}

\* reporter ids handed to the trust updater: the last one matches no user
ReporterIds == 1..(Cardinality(Phones) + 1)

\* a variant that falls back on a stored user when the id matches none
UserById_any(reporter_id) ==
    IF reporter_id \in 1..Len(users) THEN reporter_id
    ELSE IF Len(users) > 0 THEN 1 ELSE 0

\* db.query(User).filter(User.id == reporter_id).first(): 0 when there is none
UserById(reporter_id) == IF reporter_id \in 1..Len(users) THEN reporter_id ELSE 0

\* the user row after the counter was_verified names is incremented and
\* update_trust_score has run
Reviewed(user, was_verified) ==
    LET counted == IF was_verified
                   THEN [user EXCEPT !.reports_verified = @ + 1]
                   ELSE [user EXCEPT !.reports_rejected = @ + 1]
    IN  [counted EXCEPT !.trust_score =
            update_trust_score(counted.reports_submitted, counted.reports_verified,
                               counted.reports_rejected)]

TrustUpdateCall(reporter_id, was_verified) ==
    [NoCall EXCEPT
        !.input = [fn |-> "update_reporter_trust_after_verification",
                   reporter_id |-> reporter_id, was_verified |-> was_verified],
        !.done = TRUE, !.at = now]

\* one execution of the trust updater, from its query to its commit
update_reporter_trust_after_verification(reporter_id, was_verified) ==
    /\ LET user == UserById(reporter_id)
       IN  /\ user # 0 =>
                 users[user].reports_verified + users[user].reports_rejected < MaxReviews
           /\ users' = IF user = 0 THEN users
                       ELSE [users EXCEPT ![user] = Reviewed(@, was_verified)]
    /\ call' = TrustUpdateCall(reporter_id, was_verified)
    /\ UNCHANGED <<now, incidents, response, lastEval, prevCall, sessions, reviewed, authVars>>

\* a variant of the aggregator that scores the corroboration factor as for
\* no match when the query raises
ScoreWhenQueryFails_default(p, reporter_trust_score) == ScoreOf(p, reporter_trust_score, <<>>)

\* the aggregator when db.query raises inside check_cross_verification:
\* neither function catches the exception
ScoreWhenQueryFails(p, reporter_trust_score) ==
    [raised |-> TRUE, value |-> Dec(0)]

QueryFailure(p) ==
    [NoCall EXCEPT
        !.input = [fn |-> "check_cross_verification", reporter_phone |-> p.reporter_phone],
        !.done = TRUE, !.raised = TRUE, !.at = now]

\* create_incident while the incidents table cannot be queried
CreateIncidentQueryFails(p) ==
    /\ Len(incidents) < MaxIncidents
    /\ UNCHANGED <<now, prevCall, sessions, reviewed, authVars>>
    /\ LET description == Strip(p.description)
           sanitized_description == sanitize_text_field(description)
           reporter == IF WantsReporter(p) THEN FindReporter(p.reporter_phone) ELSE 0
           \* reporter.reports_submitted += 1, pending in the session
           session_users == IF reporter = 0 THEN users
                            ELSE [users EXCEPT ![reporter].reports_submitted = @ + 1]
           reporter_trust_score ==
               IF reporter # 0 THEN session_users[reporter].trust_score ELSE Dec(50)
           result == ScoreWhenQueryFails(p, reporter_trust_score)
       IN  IF ~RequestValid(p)
           THEN /\ response' = [status |-> 422]
                /\ UNCHANGED <<incidents, users, lastEval, call>>
           ELSE IF ~validate_nigerian_coordinates(p.longitude, p.latitude)
           THEN /\ response' = [status |-> 400]
                /\ UNCHANGED <<incidents, users, lastEval, call>>
           ELSE IF WantsReporter(p) /\ reporter = 0
           THEN /\ response' = [status |-> 500]
                /\ UNCHANGED <<incidents, users, lastEval, call>>
           ELSE IF TemporalRaises(p.timestamp)
           THEN /\ response' = [status |-> 500]
                /\ UNCHANGED <<incidents, users, lastEval, call>>
           ELSE IF result.raised
           THEN \* get_db closes the session: what was pending is discarded
                /\ response' = [status |-> 500]
                /\ call' = QueryFailure(p)
                /\ UNCHANGED <<incidents, users, lastEval>>
           ELSE /\ incidents' = Append(incidents,
                        NewIncident(p, sanitized_description, reporter, result.value))
                /\ users' = session_users
                /\ response' = [status |-> 201]
                /\ UNCHANGED <<lastEval, call>>

NextTrust ==
    \/ \E p \in TrustSubmissions : Len(incidents) < MaxTrustIncidents /\ CreateIncident(p)
    \/ \E p \in TrustSubmissions :
           Len(incidents) < MaxTrustIncidents /\ CreateIncidentQueryFails(p)
    \/ \E i \in 1..MaxTrustIncidents : VerifyIncident(i)
    \/ \E i \in 1..MaxTrustIncidents : UnverifyIncident(i)
    \/ \E ph \in Phones : MigrateUser(ph)
    \/ \E u \in 1..Cardinality(Phones), t \in AdminTrustProbe : UpdateUser(u, t)
    \/ \E id \in ReporterIds, was_verified \in BOOLEAN :
           update_reporter_trust_after_verification(id, was_verified)

SpecTrust == Init /\ [][NextTrust]_vars

----------------------------------------------------------------------------
(* Two workers inside handlers at the same time.  A handler reads the user  *)
(* row into its session, changes the loaded object, and writes the changed  *)
(* attributes at db.commit(); create_incident awaits reverse_geocode        *)
(* between the two.  No row is locked and no version is compared.           *)

RaceSubmissions == {NamedPayload, BasePayload}

InFlight(pc) == {w \in Workers : sessions[w].pc = pc}

\* the UPDATE db.commit() issues: the attributes of the loaded object whose
\* value was changed, with the values the session holds
Flushed(stored, loaded, row) ==
    [stored EXCEPT
        !.reports_submitted =
            IF row.reports_submitted # loaded.reports_submitted THEN row.reports_submitted ELSE @,
        !.reports_verified =
            IF row.reports_verified # loaded.reports_verified THEN row.reports_verified ELSE @,
        !.reports_rejected =
            IF row.reports_rejected # loaded.reports_rejected THEN row.reports_rejected ELSE @,
        !.trust_score =
            IF row.trust_score # loaded.trust_score THEN row.trust_score ELSE @]

\* update_reporter_trust_after_verification up to its commit: the query,
\* the increment and update_trust_score, all on the session's object
BeginTrustUpdate(w, reporter_id, was_verified) ==
    /\ sessions[w].pc = "idle"
    /\ LET user == UserById(reporter_id)
       IN  /\ user # 0 =>
                 users[user].reports_verified + users[user].reports_rejected
                     + Cardinality(InFlight("commit")) < MaxReviews
           /\ sessions' =
                 IF user = 0 THEN sessions
                 ELSE [sessions EXCEPT ![w] =
                          [pc |-> "commit", user |-> user, was_verified |-> was_verified,
                           loaded |-> users[user],
                           row |-> Reviewed(users[user], was_verified)]]
    /\ UNCHANGED <<now, incidents, users, response, lastEval, call, prevCall, reviewed, authVars>>

\* its db.commit()
CommitTrustUpdate(w) ==
    /\ sessions[w].pc = "commit"
    /\ users' = [users EXCEPT ![sessions[w].user] =
                    Flushed(@, sessions[w].loaded, sessions[w].row)]
    /\ sessions' = [sessions EXCEPT ![w] = IdleSession]
    /\ UNCHANGED <<now, incidents, response, lastEval, call, prevCall, reviewed, authVars>>

\* create_incident up to await reverse_geocode(...)
BeginSubmission(w, p) ==
    /\ sessions[w].pc = "idle"
    /\ Len(incidents) + Cardinality(InFlight("geocode")) < MaxTrustIncidents
    /\ UNCHANGED <<now, incidents, users, lastEval, call, prevCall, reviewed, authVars>>
    /\ LET reporter == IF WantsReporter(p) THEN FindReporter(p.reporter_phone) ELSE 0
       IN  IF ~RequestValid(p)
           THEN response' = [status |-> 422] /\ UNCHANGED sessions
           ELSE IF ~validate_nigerian_coordinates(p.longitude, p.latitude)
           THEN response' = [status |-> 400] /\ UNCHANGED sessions
           ELSE IF WantsReporter(p) /\ reporter = 0
           THEN response' = [status |-> 500] /\ UNCHANGED sessions
           ELSE /\ sessions' = [sessions EXCEPT ![w] =
                       IF reporter = 0
                       THEN [pc |-> "geocode", p |-> p, user |-> 0]
                       ELSE [pc |-> "geocode", p |-> p, user |-> reporter,
                             loaded |-> users[reporter],
                             row |-> [users[reporter] EXCEPT !.reports_submitted = @ + 1]]]
                /\ UNCHANGED response

\* create_incident from there to its end
FinishSubmission(w) ==
    /\ sessions[w].pc = "geocode"
    /\ sessions' = [sessions EXCEPT ![w] = IdleSession]
    /\ UNCHANGED <<now, call, prevCall, reviewed, authVars>>
    /\ LET p == sessions[w].p
           reporter == sessions[w].user
           sanitized_description == sanitize_text_field(Strip(p.description))
           reporter_trust_score ==
               IF reporter # 0 THEN sessions[w].row.trust_score ELSE Dec(50)
           result == ScoreOf(p, reporter_trust_score, incidents)
       IN  IF result.raised
           THEN /\ response' = [status |-> 500]
                /\ UNCHANGED <<incidents, users, lastEval>>
           ELSE /\ incidents' = Append(incidents,
                        NewIncident(p, sanitized_description, reporter, result.value))
                /\ users' = IF reporter = 0 THEN users
                            ELSE [users EXCEPT ![reporter] =
                                     Flushed(@, sessions[w].loaded, sessions[w].row)]
                /\ lastEval' = [nearby_count |->
                        nearby_count(p.latitude, p.longitude, p.timestamp,
                                     p.incident_type, incidents)]
                /\ response' = [status |-> 201]

NextRace ==
    \/ \E ph \in Phones : MigrateUser(ph)
    \/ \E w \in Workers, id \in ReporterIds, was_verified \in BOOLEAN :
           BeginTrustUpdate(w, id, was_verified)
    \/ \E w \in Workers : CommitTrustUpdate(w)
    \/ \E w \in Workers, p \in RaceSubmissions : BeginSubmission(w, p)
    \/ \E w \in Workers : FinishSubmission(w)

SpecRace == Init /\ [][NextRace]_vars

----------------------------------------------------------------------------
(* The authentication service, for one registered user with a verified     *)
(* e-mail address: login, token refresh, logout, a protected endpoint and   *)
(* the two-factor routes.  Times are in seconds.                            *)

ACCESS_TOKEN_EXPIRE_MINUTES == 15
REFRESH_TOKEN_EXPIRE_DAYS == 7
MAX_LOGIN_ATTEMPTS == 5
ACCOUNT_LOCKOUT_MINUTES == 15
SecondsPerMinute == 60
SecondsPerDay == 86400
TotpInterval == 30

\* the steps the clock may take: a second and the length of a lockout
ClockSteps == {1, ACCOUNT_LOCKOUT_MINUTES * SecondsPerMinute}

\* no payload: what decode_token returns for a token it rejects
NoPayload == [type |-> "none", sub |-> "none", iat |-> 0, exp |-> 0]

\* the claims login and refresh_token sign for the user
token_data == [sub |-> "user"]

create_access_token(data) ==
    [type |-> "access", sub |-> data.sub, iat |-> clock,
     exp |-> clock + ACCESS_TOKEN_EXPIRE_MINUTES * SecondsPerMinute]

create_refresh_token(data) ==
    [type |-> "refresh", sub |-> data.sub, iat |-> clock,
     exp |-> clock + REFRESH_TOKEN_EXPIRE_DAYS * SecondsPerDay]

\* jwt.decode checks the signature and the expiry; every token presented
\* here was signed by the service
decode_token(token) == IF token.exp < clock THEN NoPayload ELSE token

hash_refresh_token(token) == [sha256 |-> token]

verify_password(plain_password, hashed_password) == hashed_password = [bcrypt |-> plain_password]

Passwords == {"Correct#1", "wrong"}

\* two-factor codes: none, TOTP codes of a secret for a time step, and
\* backup codes of a generation
NoCode == [kind |-> "none"]
TotpSteps == {0, (ACCOUNT_LOCKOUT_MINUTES * SecondsPerMinute) \div TotpInterval}
TotpCodes == {[kind |-> "totp", secret |-> s, step |-> k] : s \in 1..MaxGenerations, k \in TotpSteps}

generate_backup_codes(generation) ==
    {[kind |-> "backup", generation |-> generation, index |-> k] : k \in 1..BackupCodeCount}

BackupCodes == UNION {generate_backup_codes(g) : g \in 1..MaxGenerations}
TwoFactorCodes == {NoCode} \cup TotpCodes \cup BackupCodes

\* totp.verify(code, valid_window=1)
verify_totp_code(secret, code) ==
    /\ code.kind = "totp"
    /\ code.secret = secret
    /\ Abs(code.step - (clock \div TotpInterval)) <= 1

hash_backup_code(code) == [sha256 |-> code]

verify_backup_code(code, hashed_codes) == hash_backup_code(code) \in hashed_codes

\* a variant that keeps a used backup code
Unused_keep(backup_codes, matched_hash) == backup_codes

\* [code for code in twofa.backup_codes if code != matched_hash]
Unused(backup_codes, matched_hash) == backup_codes \ {matched_hash}

\* the TwoFactorAuth row with enabled = True, if there is one
EnabledTwoFactor == twofa.exists /\ twofa.enabled

Locked == account.locked_until # Never /\ account.locked_until > clock

\* the session a refresh token is stored under for the user
SessionOf(token) == {s \in user_sessions : s.refresh_token_hash = hash_refresh_token(token)}

Revoked(session) == session.revoked_at # Never

\* the UserSession row login and refresh_token add
NewSession(refresh_token) ==
    [refresh_token_hash |-> hash_refresh_token(refresh_token),
     expires_at |-> clock + REFRESH_TOKEN_EXPIRE_DAYS * SecondsPerDay,
     revoked_at |-> Never]

\* what is outside the authentication service
storeVars == <<now, incidents, users, lastEval, call, prevCall, sessions, reviewed>>

\* the status get_current_user ends a request with, 200 when it returns the user
get_current_user(token) ==
    LET payload == decode_token(token)
    IN  IF payload = NoPayload THEN 401
        ELSE IF payload.type # "access" THEN 401
        ELSE IF ~account.is_active THEN 403
        ELSE IF ~account.email_verified THEN 403
        ELSE IF Locked THEN 403
        ELSE 200

\* the token response the client keeps
Held(access_token, refresh_token) ==
    [client EXCEPT !.tokens = @ \cup {[access_token |-> access_token,
                                       refresh_token |-> refresh_token]}]

\* the answer of a route: its status, and the tokens when it issues them
Answer(route, status) == [route |-> route, status |-> status]

\* an HTTPException of login or refresh_token, with its detail
Refused(route, status, detail) == [route |-> route, status |-> status, detail |-> detail]

TokenResponse(route, access_token, refresh_token) ==
    [route |-> route, status |-> 200,
     access_token |-> access_token, refresh_token |-> refresh_token]

\* POST /auth/login with the user's e-mail address
Login(password, two_factor_code) ==
    /\ UNCHANGED <<storeVars, clock>>
    /\ IF Locked
       THEN /\ response' = Refused("login", 403, "Account temporarily locked")
            /\ UNCHANGED <<account, twofa, user_sessions, client>>
       ELSE IF ~verify_password(password, account.password_hash)
       THEN /\ account' =
                 [account EXCEPT
                     !.failed_login_attempts = @ + 1,
                     !.locked_until =
                         IF account.failed_login_attempts + 1 >= MAX_LOGIN_ATTEMPTS
                         THEN clock + ACCOUNT_LOCKOUT_MINUTES * SecondsPerMinute ELSE @]
            /\ response' = Refused("login", 401, "Invalid email or password")
            /\ UNCHANGED <<twofa, user_sessions, client>>
       ELSE IF ~account.is_active \/ ~account.email_verified
       THEN /\ response' = Refused("login", 403, "Account is inactive or email unverified")
            /\ UNCHANGED <<account, twofa, user_sessions, client>>
       ELSE LET reset == [account EXCEPT !.failed_login_attempts = 0, !.locked_until = Never]
                by_totp == verify_totp_code(twofa.secret, two_factor_code)
                by_backup == /\ two_factor_code.kind = "backup"
                             /\ verify_backup_code(two_factor_code, twofa.backup_codes)
                access_token == create_access_token(token_data)
                refresh_token == create_refresh_token(token_data)
            IN  IF EnabledTwoFactor /\ two_factor_code = NoCode
                THEN \* db.commit() before the 403
                     /\ account' = reset
                     /\ response' = Refused("login", 403, "Two-factor authentication code required")
                     /\ UNCHANGED <<twofa, user_sessions, client>>
                ELSE IF EnabledTwoFactor /\ ~by_totp /\ ~by_backup
                THEN \* db.commit() before the 401
                     /\ account' = reset
                     /\ response' = Refused("login", 401, "Invalid two-factor authentication code")
                     /\ UNCHANGED <<twofa, user_sessions, client>>
                ELSE IF SessionOf(refresh_token) # {}
                THEN \* user_sessions.refresh_token_hash is unique: the
                     \* INSERT fails and nothing of the request is committed
                     /\ response' = Refused("login", 500, "IntegrityError")
                     /\ UNCHANGED <<account, twofa, user_sessions, client>>
                ELSE /\ Cardinality(client.tokens) < MaxTokens
                     /\ account' = reset
                     /\ twofa' = IF EnabledTwoFactor /\ by_backup
                                 THEN [twofa EXCEPT !.backup_codes =
                                          Unused(@, hash_backup_code(two_factor_code))]
                                 ELSE twofa
                     /\ user_sessions' = user_sessions \cup {NewSession(refresh_token)}
                     /\ client' = Held(access_token, refresh_token)
                     /\ response' = TokenResponse("login", access_token, refresh_token)

\* a variant that leaves the redeemed session in the table
RotateSession_keep(session, new_refresh_token) ==
    user_sessions \cup {NewSession(new_refresh_token)}

\* db.delete(session); db.add(new_session)
RotateSession(session, new_refresh_token) ==
    (user_sessions \ {session}) \cup {NewSession(new_refresh_token)}

\* POST /auth/refresh
Refresh(token) ==
    /\ UNCHANGED <<storeVars, clock, account, twofa>>
    /\ LET payload == decode_token(token)
           found == SessionOf(token)
           session == CHOOSE s \in found : TRUE
           new_access_token == create_access_token(token_data)
           new_refresh_token == create_refresh_token(token_data)
       IN  IF payload = NoPayload \/ payload.type # "refresh"
           THEN /\ response' = Refused("refresh", 401, "Invalid refresh token")
                /\ UNCHANGED <<user_sessions, client>>
           ELSE IF found = {}
           THEN /\ response' = Refused("refresh", 401, "Refresh token not found or already used")
                /\ UNCHANGED <<user_sessions, client>>
           ELSE IF session.expires_at < clock \/ Revoked(session)
           THEN /\ user_sessions' = user_sessions \ {session}
                /\ response' = Refused("refresh", 401, "Refresh token expired or revoked")
                /\ UNCHANGED client
           ELSE IF ~account.is_active
           THEN /\ response' = Refused("refresh", 401, "User not found or inactive")
                /\ UNCHANGED <<user_sessions, client>>
           ELSE IF SessionOf(new_refresh_token) # {}
           THEN \* the new row is inserted before the old one is deleted:
                \* the unique refresh_token_hash fails the INSERT
                /\ response' = Refused("refresh", 500, "IntegrityError")
                /\ UNCHANGED <<user_sessions, client>>
           ELSE /\ Cardinality(client.tokens) < MaxTokens
                /\ user_sessions' = RotateSession(session, new_refresh_token)
                /\ client' = [Held(new_access_token, new_refresh_token) EXCEPT
                                 !.redeemed = @ \cup {token}]
                /\ response' = TokenResponse("refresh", new_access_token, new_refresh_token)

\* POST /auth/logout
Logout(access_token, refresh_token) ==
    /\ UNCHANGED <<storeVars, clock, account, twofa, client>>
    /\ response' = Answer("logout", get_current_user(access_token))
    /\ user_sessions' =
           IF get_current_user(access_token) = 200
           THEN {IF s \in SessionOf(refresh_token) THEN [s EXCEPT !.revoked_at = clock] ELSE s :
                     s \in user_sessions}
           ELSE user_sessions

\* POST /auth/logout-all
LogoutAll(access_token) ==
    /\ UNCHANGED <<storeVars, clock, account, twofa, client>>
    /\ response' = Answer("logout-all", get_current_user(access_token))
    /\ user_sessions' =
           IF get_current_user(access_token) = 200
           THEN {IF s.revoked_at = Never THEN [s EXCEPT !.revoked_at = clock] ELSE s :
                     s \in user_sessions}
           ELSE user_sessions

\* GET /auth/me, a protected endpoint
GetMe(access_token) ==
    /\ response' = Answer("me", get_current_user(access_token))
    /\ UNCHANGED <<storeVars, authVars>>

\* POST /2fa/setup
Setup2FA(access_token) ==
    /\ twofa.generation < MaxGenerations
    /\ UNCHANGED <<storeVars, clock, account, user_sessions, client>>
    /\ IF get_current_user(access_token) # 200
       THEN response' = Answer("2fa/setup", get_current_user(access_token)) /\ UNCHANGED twofa
       ELSE IF EnabledTwoFactor
       THEN response' = Answer("2fa/setup", 400) /\ UNCHANGED twofa
       ELSE /\ twofa' = [exists |-> TRUE, enabled |-> FALSE,
                         secret |-> twofa.generation + 1,
                         generation |-> twofa.generation + 1,
                         backup_codes |-> {hash_backup_code(code) :
                                              code \in generate_backup_codes(twofa.generation + 1)}]
            /\ response' = Answer("2fa/setup", 200)

\* POST /2fa/enable
Enable2FA(access_token, code) ==
    /\ UNCHANGED <<storeVars, clock, account, user_sessions, client>>
    /\ IF get_current_user(access_token) # 200
       THEN response' = Answer("2fa/enable", get_current_user(access_token)) /\ UNCHANGED twofa
       ELSE IF ~twofa.exists \/ twofa.enabled \/ ~verify_totp_code(twofa.secret, code)
       THEN response' = Answer("2fa/enable", 400) /\ UNCHANGED twofa
       ELSE /\ twofa' = [twofa EXCEPT !.enabled = TRUE]
            /\ response' = Answer("2fa/enable", 200)

\* POST /2fa/verify
Verify2FA(access_token, code) ==
    /\ UNCHANGED <<storeVars, clock, account, user_sessions, client>>
    /\ IF get_current_user(access_token) # 200
       THEN response' = Answer("2fa/verify", get_current_user(access_token)) /\ UNCHANGED twofa
       ELSE IF ~EnabledTwoFactor
       THEN response' = Answer("2fa/verify", 400) /\ UNCHANGED twofa
       ELSE IF verify_totp_code(twofa.secret, code)
       THEN response' = Answer("2fa/verify", 200) /\ UNCHANGED twofa
       ELSE IF code.kind = "backup" /\ verify_backup_code(code, twofa.backup_codes)
       THEN /\ twofa' = [twofa EXCEPT !.backup_codes = Unused(@, hash_backup_code(code))]
            /\ response' = Answer("2fa/verify", 200)
       ELSE response' = Answer("2fa/verify", 400) /\ UNCHANGED twofa

\* POST /2fa/disable
Disable2FA(access_token, password) ==
    /\ UNCHANGED <<storeVars, clock, account, user_sessions, client>>
    /\ IF get_current_user(access_token) # 200
       THEN response' = Answer("2fa/disable", get_current_user(access_token)) /\ UNCHANGED twofa
       ELSE IF ~verify_password(password, account.password_hash) \/ ~EnabledTwoFactor
       THEN response' = Answer("2fa/disable", 400) /\ UNCHANGED twofa
       ELSE /\ twofa' = [twofa EXCEPT !.enabled = FALSE]
            /\ response' = Answer("2fa/disable", 200)

\* POST /2fa/regenerate-codes
regenerate_backup_codes(access_token) ==
    /\ twofa.generation < MaxGenerations
    /\ UNCHANGED <<storeVars, clock, account, user_sessions, client>>
    /\ IF get_current_user(access_token) # 200
       THEN response' = Answer("2fa/regenerate-codes", get_current_user(access_token)) /\ UNCHANGED twofa
       ELSE IF ~EnabledTwoFactor
       THEN response' = Answer("2fa/regenerate-codes", 400) /\ UNCHANGED twofa
       ELSE /\ twofa' = [twofa EXCEPT
                            !.generation = @ + 1,
                            !.backup_codes = {hash_backup_code(code) :
                                                 code \in generate_backup_codes(twofa.generation + 1)}]
            /\ response' = Answer("2fa/regenerate-codes", 200)

\* time passes
AdvanceClock(step) ==
    /\ clock + step <= MaxClock
    /\ (clock + step) % (ACCOUNT_LOCKOUT_MINUTES * SecondsPerMinute) <= MaxSeconds
    /\ clock' = clock + step
    /\ UNCHANGED <<storeVars, response, account, twofa, user_sessions, client>>

\* the tokens the client can present
HeldAccessTokens == {r.access_token : r \in client.tokens}
HeldRefreshTokens == {r.refresh_token : r \in client.tokens}
HeldTokens == HeldAccessTokens \cup HeldRefreshTokens

\* sessions: logging in, refreshing, logging out and calling a protected
\* endpoint, with the right password and no second factor
NextSession ==
    \/ Login("Correct#1", NoCode)
    \/ \E token \in HeldTokens : Refresh(token)
    \/ \E r \in client.tokens : Logout(r.access_token, r.refresh_token)
    \/ \E token \in HeldAccessTokens : LogoutAll(token)
    \/ \E token \in HeldTokens : GetMe(token)
    \/ \E step \in ClockSteps : AdvanceClock(step)

SpecSession == Init /\ [][NextSession]_vars

\* the second factor: logging in with either password and any code, and the
\* two-factor routes
NextTwoFactor ==
    \/ \E password \in Passwords, code \in TwoFactorCodes : Login(password, code)
    \/ \E token \in HeldAccessTokens : Setup2FA(token)
    \/ \E token \in HeldAccessTokens, code \in TotpCodes : Enable2FA(token, code)
    \/ \E token \in HeldAccessTokens, code \in TwoFactorCodes : Verify2FA(token, code)
    \/ \E token \in HeldAccessTokens, password \in Passwords : Disable2FA(token, password)
    \/ \E token \in HeldAccessTokens : regenerate_backup_codes(token)
    \/ AdvanceClock(1)

SpecTwoFactor == Init /\ [][NextTwoFactor]_vars

\* the lockout: logging in with either password, with and without a second
\* factor switched on
NextLockout ==
    \/ \E password \in Passwords, code \in {NoCode} \cup TotpCodes : Login(password, code)
    \/ \E token \in HeldAccessTokens : Setup2FA(token)
    \/ \E token \in HeldAccessTokens, code \in TotpCodes : Enable2FA(token, code)
    \/ \E token \in HeldTokens : GetMe(token)
    \/ \E step \in ClockSteps : AdvanceClock(step)

SpecLockout == Init /\ [][NextLockout]_vars

----------------------------------------------------------------------------
(* Editing stored incidents: submissions with and without a reporter, the   *)
(* review switches and PATCH /incidents/{id}.                               *)

AnonymousPayload == [NamedPayload EXCEPT !.is_anonymous = TRUE]

\* a named report, a report without a phone number, and anonymous reports
\* with and without a phone number
EditSubmissions ==
    {NamedPayload, BasePayload, AnonymousPayload, [BasePayload EXCEPT !.is_anonymous = TRUE]}

\* a variant of the schema that lets the score through
IncidentUpdateFields_score == {"incident_type", "description", "verified", "verification_score"}

\* the fields of IncidentUpdate the incidents of this model have
IncidentUpdateFields == {"incident_type", "description", "verified"}

\* request bodies of PATCH /incidents/{id}; the last one carries a field
\* that IncidentUpdate does not declare
UpdateBodies ==
    {[incident_type |-> "banditry"],
     [description |-> DescShort],
     [verified |-> TRUE],
     [incident_type |-> "banditry", description |-> DescShort, verification_score |-> Dec(100)]}

\* incident_update.model_dump(exclude_unset=True)
update_data(body) == [field \in DOMAIN body \cap IncidentUpdateFields |-> body[field]]

\* PATCH /incidents/{incident_id}
UpdateIncident(i, body) ==
    /\ UNCHANGED <<now, users, lastEval, call, prevCall, sessions, reviewed, authVars>>
    /\ IF i \notin 1..Len(incidents)
       THEN response' = [status |-> 404] /\ UNCHANGED incidents
       ELSE /\ incidents' =
                 [incidents EXCEPT ![i] =
                     [field \in DOMAIN incidents[i] |->
                         IF field \in DOMAIN update_data(body)
                         THEN update_data(body)[field] ELSE incidents[i][field]]]
            /\ response' = [status |-> 200]

\* submissions and the review switches
NextSubmit ==
    \/ \E p \in EditSubmissions : Len(incidents) < MaxTrustIncidents /\ CreateIncident(p)
    \/ \E i \in 1..MaxTrustIncidents : VerifyIncident(i)
    \/ \E i \in 1..MaxTrustIncidents : UnverifyIncident(i)
    \/ \E ph \in Phones : MigrateUser(ph)

SpecSubmit == Init /\ [][NextSubmit]_vars

\* the same with updates of the stored incidents
NextEdit ==
    \/ \E p \in EditSubmissions : Len(incidents) < MaxEditIncidents /\ CreateIncident(p)
    \/ \E i \in 1..MaxEditIncidents : VerifyIncident(i)
    \/ \E i \in 1..MaxEditIncidents : UnverifyIncident(i)
    \/ \E i \in 1..(MaxEditIncidents + 1), body \in UpdateBodies : UpdateIncident(i, body)
    \/ \E ph \in Phones : MigrateUser(ph)

SpecEdit == Init /\ [][NextEdit]_vars

----------------------------------------------------------------------------
(* The reporters' counters when every review reaches the trust updater:     *)
(* submissions through create_incident, also two at a time, and one call of *)
(* update_reporter_trust_after_verification for each reviewed incident.     *)

\* an incident whose review has not reached the trust updater yet
Unreviewed(i) == i \notin reviewed

\* the review of incident i: the call of the trust updater for its reporter
ReviewIncident(i, was_verified) ==
    /\ i \in 1..Len(incidents)
    /\ Unreviewed(i)
    /\ incidents[i].reporter_id # 0
    /\ LET user == UserById(incidents[i].reporter_id)
       IN  /\ users[user].reports_verified + users[user].reports_rejected < MaxReviews
           /\ users' = [users EXCEPT ![user] = Reviewed(@, was_verified)]
    /\ reviewed' = reviewed \cup {i}
    /\ call' = TrustUpdateCall(incidents[i].reporter_id, was_verified)
    /\ UNCHANGED <<now, incidents, response, lastEval, prevCall, sessions, authVars>>

\* submissions that may overlap
NextCountersRace ==
    \/ \E ph \in Phones : MigrateUser(ph)
    \/ \E w \in Workers, p \in RaceSubmissions : BeginSubmission(w, p)
    \/ \E w \in Workers : FinishSubmission(w)
    \/ \E i \in 1..MaxTrustIncidents, was_verified \in BOOLEAN : ReviewIncident(i, was_verified)

SpecCountersRace == Init /\ [][NextCountersRace]_vars

----------------------------------------------------------------------------
(* The claims. *)

IsCall(fn) == call.input.fn = fn /\ call.done

NewRow == incidents'[Len(incidents')]

\* C2: every incident create_incident stores has verified = TRUE exactly
\* when its verification_score is at least 0.8.
C2_AutoVerifyIff ==
    [][Len(incidents') = Len(incidents) + 1 =>
          (NewRow.verified <=> RLeq(Dec(80), NewRow.verification_score))]_vars

\* C2 witness: an incident stored with a score of exactly 0.8, auto-verified.
C2_Witness ==
    \E i \in 1..Len(incidents) :
        /\ incidents[i].verification_score = Dec(80)
        /\ incidents[i].verified
        /\ incidents[i].verified_by = None

\* the weighted sum of C3, from the five evaluators
C3_WeightedSum(input) ==
    RDiv(RAdd(RAdd(RAdd(RAdd(
            RMul(Dec(20), check_spatial_plausibility(
                              input.latitude, input.longitude, input.incident_type)),
            RMul(Dec(15), check_temporal_plausibility(input.timestamp, input.incident_type))),
            RMul(Dec(30), input.reporter_trust_score)),
            RMul(Dec(25), check_cross_verification(
                              input.latitude, input.longitude, input.timestamp,
                              input.incident_type, incidents))),
            RMul(Dec(10), check_description_quality(input.description))),
         Dec(100))

\* C3: the score returned is 0.20*spatial + 0.15*temporal + 0.30*trust +
\* 0.25*cross + 0.10*description, divided by 1.00 and clamped to [0,1]
\* (compared while the clock still shows the hour of the call).
C3_ScoreIsWeightedSum ==
    (IsCall("calculate_verification_score") /\ ~call.raised /\ call.at = now) =>
        call.result = RMax(Dec(0), RMin(Dec(100), C3_WeightedSum(call.input)))

\* C3 witness: a call has returned a score strictly between 0 and 1 to which
\* each of the five factors contributes.
C3_Witness ==
    /\ IsCall("calculate_verification_score") /\ ~call.raised /\ call.at = now
    /\ RLt(Dec(0), call.result) /\ RLt(call.result, Dec(100))
    /\ call.input.reporter_trust_score = Dec(95)
    /\ call.input.description # <<>>
    /\ check_temporal_plausibility(call.input.timestamp, "other") = Dec(80)
    /\ check_spatial_plausibility(call.input.latitude, call.input.longitude,
                                  call.input.incident_type) = Dec(90)

\* C4: two calls of calculate_verification_score with the same arguments
\* against an unchanged table return the same result.
C4_Deterministic ==
    (prevCall.done /\ call.done /\ prevCall.input = call.input
        /\ call.input.fn = "calculate_verification_score") =>
        (prevCall.raised = call.raised /\ prevCall.result = call.result)

\* the temporal score of C5, from the exact age in hours
C5_ByAge(age) ==
    IF age <= 24 THEN Dec(100)
    ELSE IF age <= 72 THEN Dec(80)
    ELSE IF age <= 168 THEN Dec(60)
    ELSE Dec(40)

\* C5: for a timestamp not in the future the temporal score is 1.0 up to an
\* age of 1 day, 0.8 up to 3 days, 0.6 up to 7 days and 0.4 beyond, the age
\* being the exact duration now - occurred_at.
C5_TemporalByExactAge ==
    (IsCall("check_temporal_plausibility") /\ ~call.raised
        /\ call.input.timestamp.t <= call.at) =>
        call.result = C5_ByAge(call.at - call.input.timestamp.t)

C7_ByCount(count) ==
    CASE count = 0 -> Dec(50)
      [] count = 1 -> Dec(70)
      [] count = 2 -> Dec(90)
      [] count >= 3 -> Dec(100)

\* C7: the cross-verification score is 0.5, 0.7, 0.9 and 1.0 for 0, 1, 2 and
\* 3 or more matching stored incidents, and no smaller number of matches
\* scores higher.
C7_CrossByCount ==
    IsCall("check_cross_verification") =>
        /\ call.result = C7_ByCount(call.nearby_count)
        /\ \A fewer \in 0..call.nearby_count : RLeq(CrossScore(fewer), call.result)

\* C7 witness: a report with four matching stored incidents has scored 1.0.
C7_Witness ==
    /\ IsCall("check_cross_verification")
    /\ call.nearby_count = 4
    /\ call.result = Dec(100)

\* a stored incident that corroborates a report, in the words of C8
C8_Matches(row, report) ==
    /\ row.incident_type = report.incident_type
    /\ Abs(row.timestamp.t - report.timestamp.t) <= 6
    /\ (row.latitude - report.latitude) * (row.latitude - report.latitude)
         + (row.longitude - report.longitude) * (row.longitude - report.longitude) <= 81

\* C8: the count create_incident scores a new report with is the number of
\* incidents stored before it that have its type, a timestamp within 6
\* hours of its own (ends included) and a place within 0.09 degrees of its
\* own.
C8_CountIsMatches ==
    [][Len(incidents') = Len(incidents) + 1 =>
          lastEval'.nearby_count =
              Cardinality({i \in 1..Len(incidents) : C8_Matches(incidents[i], NewRow)})]_vars

\* C8 witness: a third report has been stored that was scored with exactly
\* one match: a report 0.08 degrees and 6 hours away from it counted, the
\* other stored report did not.
C8_Witness ==
    /\ Len(incidents) = 3
    /\ lastEval.nearby_count = 1
    /\ \E i \in 1..2 :
          /\ C8_Matches(incidents[i], incidents[3])
          /\ Abs(incidents[i].timestamp.t - incidents[3].timestamp.t) = 6
          /\ Abs(incidents[i].longitude - incidents[3].longitude) = 8

C9_InBox(latitude, longitude) ==
    400 <= latitude /\ latitude <= 1400 /\ 250 <= longitude /\ longitude <= 1500

\* the rectangle of the zone group an incident type belongs to
C9_InZone(latitude, longitude, incident_type) ==
    CASE incident_type \in {"insurgent_attack", "bomb_blast"} ->
            1050 <= latitude /\ latitude <= 1390 /\ 1100 <= longitude /\ longitude <= 1450
      [] incident_type \in {"banditry", "kidnapping", "cattle_rustling"} ->
            1100 <= latitude /\ latitude <= 1350 /\ 400 <= longitude /\ longitude <= 900
      [] incident_type = "farmer_herder_clash" ->
            650 <= latitude /\ latitude <= 1000 /\ 700 <= longitude /\ longitude <= 1000
      [] OTHER -> FALSE

C9_Grouped ==
    {"insurgent_attack", "bomb_blast", "banditry", "kidnapping", "cattle_rustling",
     "farmer_herder_clash"}

\* C9: the spatial score is 0.0 outside the national box; inside it, it is
\* 0.9 exactly when the type belongs to a zone group and the point lies in
\* that group's rectangle, 0.6 or 0.7 for a grouped type outside its
\* rectangle, and 0.7 for every other type.
C9_SpatialPolicy ==
    IsCall("check_spatial_plausibility") =>
        LET la == call.input.latitude
            lo == call.input.longitude
            ty == call.input.incident_type
        IN  /\ ~C9_InBox(la, lo) => call.result = Dec(0)
            /\ C9_InBox(la, lo) =>
                  /\ call.result = Dec(90) <=> C9_InZone(la, lo, ty)
                  /\ (ty \in C9_Grouped /\ ~C9_InZone(la, lo, ty)) =>
                         call.result \in {Dec(60), Dec(70)}
                  /\ ty \notin C9_Grouped => call.result = Dec(70)

\* C9 witness: an insurgent attack at Maiduguri has scored 0.9.
C9_Witness ==
    /\ IsCall("check_spatial_plausibility")
    /\ call.input.incident_type = "insurgent_attack"
    /\ call.input.latitude = P0.latitude /\ call.input.longitude = P0.longitude
    /\ call.result = Dec(90)

C10_L(words) == IF words >= 20 THEN Dec(20) ELSE IF words >= 10 THEN Dec(10) ELSE Dec(0)
C10_K(matches) == IF matches >= 3 THEN Dec(30) ELSE IF matches >= 1 THEN Dec(15) ELSE Dec(0)

\* C10: the description score is 0.0 for the empty text and otherwise
\* min(1.0, 0.5 + L + K), L by the number of words and K by the number of
\* keywords found; it lies in [0,1].
C10_DescriptionPolicy ==
    IsCall("check_description_quality") =>
        /\ call.result =
               IF call.input.description = <<>> THEN Dec(0)
               ELSE RMin(Dec(100), RAdd(RAdd(Dec(50), C10_L(call.input.words)),
                                        C10_K(call.input.matches)))
        /\ RLeq(Dec(0), call.result) /\ RLeq(call.result, Dec(100))

\* C10 witness: a text of exactly twenty words in which two keywords are
\* found has scored 0.85.
C10_Witness ==
    /\ IsCall("check_description_quality")
    /\ call.input.words = 20
    /\ call.input.matches = 2
    /\ call.result = Dec(85)

\* the trust score of C11, from the three counters
C11_Trust(submitted, verified, rejected) ==
    IF submitted = 0 THEN Rat(1, 2)
    ELSE LET w == IF submitted >= 20 THEN Rat(1, 1) ELSE Rat(submitted, 20)
             inner == RAdd(RAdd(RMul(Rat(verified, submitted), Rat(4, 5)), Rat(1, 5)),
                           RMul(Rat(-3, 10), Rat(rejected, submitted)))
             x == RAdd(RMul(inner, w), RMul(Rat(1, 2), RAdd(Rat(1, 1), RMul(Rat(-1, 1), w))))
         IN  IF RLt(x, Rat(0, 1)) THEN Rat(0, 1) ELSE IF RLt(Rat(1, 1), x) THEN Rat(1, 1) ELSE x

\* C11: update_trust_score sets trust_score to 0.5 when reports_submitted is
\* 0 and otherwise to clamp01(((verified/submitted)*0.8 + 0.2 -
\* (rejected/submitted)*0.3) * w + 0.5*(1 - w)), w = min(submitted/20, 1);
\* the counters (10, 8, 2) give 0.64.
C11_TrustFormula ==
    IsCall("update_trust_score") =>
        /\ call.result = C11_Trust(call.input.reports_submitted,
                                   call.input.reports_verified,
                                   call.input.reports_rejected)
        /\ (call.input.reports_submitted = 10 /\ call.input.reports_verified = 8
               /\ call.input.reports_rejected = 2) => call.result = Rat(16, 25)

\* C11 witness: the call with the counters (10, 8, 2) has returned 0.64.
C11_Witness ==
    /\ IsCall("update_trust_score")
    /\ call.input.reports_submitted = 10
    /\ call.input.reports_verified = 8
    /\ call.input.reports_rejected = 2
    /\ call.result = Dec(64)

\* the score after one more rejection than the call was made with
C13_AfterOneMore ==
    update_trust_score(call.input.reports_submitted, call.input.reports_verified,
                       call.input.reports_rejected + 1)

C13_Case ==
    /\ IsCall("update_trust_score")
    /\ call.input.reports_submitted > 0
    /\ call.input.reports_rejected < call.input.reports_submitted

C14_TrustIsFunctionOfCounters ==
    \A u \in 1..Len(users) :
        users[u].trust_score =
            update_trust_score(users[u].reports_submitted, users[u].reports_verified,
                               users[u].reports_rejected)

\* C15: an administrator's decision on an undecided incident that has a
\* reporter increments the reporter's matching counter by one and recomputes
\* the trust score: verifying an unverified incident adds one to
\* reports_verified, unverifying a verified one adds one to reports_rejected.
C15_ReviewUpdatesReporter ==
    [][\A i \in 1..Len(incidents) :
          LET r == incidents[i].reporter_id
          IN  /\ (VerifyIncident(i) /\ ~incidents[i].verified /\ r # 0) =>
                     users' = [users EXCEPT ![r] = Reviewed(@, TRUE)]
              /\ (UnverifyIncident(i) /\ incidents[i].verified /\ r # 0) =>
                     users' = [users EXCEPT ![r] = Reviewed(@, FALSE)]]_vars

\* a request create_incident has no reason to refuse
C16_Acceptable(p) ==
    /\ RequestValid(p)
    /\ C9_InBox(p.latitude, p.longitude)
    /\ p.timestamp.aware

\* C16: every acceptable submission under a reporter's phone number leaves
\* that reporter with one report more than before, the first one, which
\* creates the reporter, leaving reports_submitted = 1.
C16_SubmissionsCounted ==
    [][\A p \in TrustSubmissions :
          (C16_Acceptable(p) /\ WantsReporter(p) /\ CreateIncident(p)) =>
              LET before == FindReporter(p.reporter_phone)
              IN  \E u \in 1..Len(users') :
                      /\ users'[u].phone_number = p.reporter_phone
                      /\ users'[u].reports_submitted =
                             IF before = 0 THEN 1 ELSE users[before].reports_submitted + 1]_vars

\* C17: update_reporter_trust_after_verification with a reporter_id that
\* matches no user returns without raising and leaves every user row as it
\* was.
C17_MissingReporterNoOp ==
    [][\A id \in ReporterIds, was_verified \in BOOLEAN :
          (id \notin 1..Len(users)
              /\ update_reporter_trust_after_verification(id, was_verified)) =>
              (users' = users /\ call'.done /\ ~call'.raised)]_vars

\* C17 witness: the updater has returned from a call with an id that matches
\* none of the stored users, whose rows hold earlier review outcomes.
C17_Witness ==
    /\ IsCall("update_reporter_trust_after_verification")
    /\ ~call.raised
    /\ call.input.reporter_id \notin 1..Len(users)
    /\ \E u \in 1..Len(users) : users[u].reports_verified = 1 /\ users[u].reports_rejected = 1

\* C19: when the corroboration query fails while a submission is scored,
\* the error leaves calculate_verification_score (no score is returned) and
\* create_incident answers with an error and stores nothing: no incident, no
\* reporter, no change of reports_submitted.
C19_QueryFailurePersistsNothing ==
    [][\A p \in TrustSubmissions :
          CreateIncidentQueryFails(p) =>
              /\ incidents' = incidents
              /\ users' = users
              /\ response'.status # 201
              /\ (C16_Acceptable(p) /\ (WantsReporter(p) => FindReporter(p.reporter_phone) # 0)) =>
                     (call'.raised /\ response'.status = 500)]_vars

\* C19 witness: the submission of a stored reporter has failed in the
\* corroboration query; the reporter still has no report counted and the
\* table holds no incident.
C19_Witness ==
    /\ IsCall("check_cross_verification") /\ call.raised
    /\ response.status = 500
    /\ incidents = <<>>
    /\ \E u \in 1..Len(users) :
          /\ users[u].phone_number = call.input.reporter_phone
          /\ users[u].reports_submitted = 0

C20_Unchanged == incidents' = incidents /\ users' = users

\* C20 as stated: create_incident answers every submission whose
\* coordinates lie outside the national box with HTTP 400 and changes
\* neither the incidents nor the reporters.
C20_AlwaysBadRequest ==
    [][\A p \in TrustSubmissions :
          (~C9_InBox(p.latitude, p.longitude) /\ CreateIncident(p)) =>
              (response'.status = 400 /\ C20_Unchanged)]_vars

\* C20 amended: create_incident rejects every submission whose coordinates
\* lie outside the national box, with HTTP 400 when the request passes the
\* schema's validation and with HTTP 422 when it does not (description too
\* short, longitude outside [-180,180] or latitude outside [-90,90]); a
\* rejected submission changes neither the incidents nor the reporters, and
\* no stored incident has coordinates outside the box.
C20_OutOfBoundsRejected ==
    /\ [](\A i \in 1..Len(incidents) :
             C9_InBox(incidents[i].latitude, incidents[i].longitude))
    /\ [][\A p \in TrustSubmissions :
             (~C9_InBox(p.latitude, p.longitude) /\ CreateIncident(p)) =>
                 /\ response'.status = IF RequestValid(p) THEN 400 ELSE 422
                 /\ C20_Unchanged]_vars

\* C20 witness: a submission has been answered with 400 after a reporter's
\* report was stored; the table and the counter are as that report left them.
C20_Witness ==
    /\ response.status = 400
    /\ Len(incidents) = 1
    /\ \E u \in 1..Len(users) : users[u].reports_submitted = 1

\* C18: whatever the interleaving of two executions of the trust updater,
\* or of two submissions, for the same reporter, no increment is lost: each
\* execution that commits leaves the stored counter it incremented one
\* above the value stored just before, the other counters as they were
\* stored, and (for the updater) the stored trust_score equal to the
\* function of the stored counters.
C18_NoLostUpdate ==
    [][\A w \in Workers :
          /\ CommitTrustUpdate(w) =>
                users' = [users EXCEPT ![sessions[w].user] =
                             Reviewed(@, sessions[w].was_verified)]
          /\ (FinishSubmission(w) /\ sessions[w].user # 0 /\ response'.status = 201) =>
                users' = [users EXCEPT ![sessions[w].user].reports_submitted = @ + 1]]_vars

\* C21: every submission create_incident accepts whose timestamp lies in
\* the future is stored with a verification_score below 0.5, whatever the
\* reporter's trust, the corroboration count and the description.
C21_FutureScoredLow ==
    [][\A p \in Submissions :
          (p.timestamp.t > now /\ CreateIncident(p) /\ response'.status = 201) =>
              RLt(NewRow.verification_score, Dec(50))]_vars

\* C22: a non-anonymous submission with a reporter_phone that matches no
\* stored user is answered 201: it creates a reporter with trust_score 0.5,
\* scores the report with trust 0.5 and stores the incident linked to the
\* new reporter.
C22_NewReporterAccepted ==
    [][\A p \in TrustSubmissions :
          (C16_Acceptable(p) /\ WantsReporter(p) /\ FindReporter(p.reporter_phone) = 0
              /\ CreateIncident(p)) =>
              /\ response'.status = 201
              /\ Len(users') = Len(users) + 1
              /\ users'[Len(users')].phone_number = p.reporter_phone
              /\ users'[Len(users')].trust_score = Dec(50)
              /\ Len(incidents') = Len(incidents) + 1
              /\ NewRow.reporter_id = Len(users')
              /\ NewRow.verification_score = ScoreOf(p, Dec(50), incidents).value]_vars

\* the session a token response was issued with has been revoked by a logout
C23_LoggedOut(r) == \E s \in SessionOf(r.refresh_token) : Revoked(s)

\* C23: after a successful POST /auth/logout for a session, a request to a
\* protected endpoint that presents the access token issued with that
\* session is rejected with 401.
C23_AccessRejectedAfterLogout ==
    [][\A r \in client.tokens :
          (C23_LoggedOut(r) /\ GetMe(r.access_token)) => response'.status = 401]_vars

\* C28: a refresh token is redeemed at most once.  A successful POST
\* /auth/refresh deletes the session of the token presented and stores
\* exactly one new session, that of the refresh token it returns; every
\* later refresh with a token already redeemed is rejected with 401, and so
\* is a refresh with a token whose session a logout has revoked; a rejected
\* refresh issues no tokens.
C28_RefreshOnce ==
    [][\A token \in HeldTokens :
          Refresh(token) =>
              /\ response'.status = 200 =>
                    /\ user_sessions \ user_sessions' = SessionOf(token)
                    /\ SessionOf(token) # {}
                    /\ user_sessions' \ user_sessions = {NewSession(response'.refresh_token)}
                    /\ response'.refresh_token # token
              /\ token \in client.redeemed =>
                    (response'.status = 401 /\ client' = client)
              /\ (\E s \in SessionOf(token) : Revoked(s)) =>
                    (response'.status = 401 /\ client' = client)]_vars

\* C28 witness: a refresh has been answered 401 "not found or already used"
\* while every token the client holds and has not redeemed still has its
\* session: the token presented was one redeemed before.
C28_Witness ==
    /\ response = Refused("refresh", 401, "Refresh token not found or already used")
    /\ client.redeemed # {}
    /\ \A token \in HeldRefreshTokens \ client.redeemed : SessionOf(token) # {}
    /\ Cardinality(user_sessions) = 1

\* C28 witness for the revoked session: a refresh has been answered 401
\* "expired or revoked" within the lifetime of every refresh token issued.
C28_RevokedWitness ==
    /\ response = Refused("refresh", 401, "Refresh token expired or revoked")
    /\ \A token \in HeldRefreshTokens : token.exp >= clock

\* C29: once an account has accumulated MAX_LOGIN_ATTEMPTS wrong-password
\* logins without a successful login in between, locked_until is set;
\* every login made before locked_until passes is rejected with 403 and
\* issues no tokens, even with the right password; and only a successful
\* login sets failed_login_attempts back to 0.
C29_Lockout ==
    [][\A password \in Passwords, code \in {NoCode} \cup TotpCodes :
          Login(password, code) =>
              /\ (~Locked /\ ~verify_password(password, account.password_hash)
                      /\ account.failed_login_attempts + 1 >= MAX_LOGIN_ATTEMPTS) =>
                    account'.locked_until > clock
              /\ Locked => (response'.status = 403 /\ client' = client
                               /\ user_sessions' = user_sessions)
              /\ (account.failed_login_attempts > 0 /\ account'.failed_login_attempts = 0) =>
                    response'.status = 200]_vars

\* a backup code of the current generation that is no longer stored: a login
\* or a /2fa/verify call has succeeded with it
C24_Used(code) ==
    /\ twofa.exists
    /\ code.generation = twofa.generation
    /\ ~verify_backup_code(code, twofa.backup_codes)

C24_NoTokens == client' = client /\ user_sessions' = user_sessions

C25_Independent(row, report) ==
    IF report.reporter_id # 0
    THEN row.reporter_id # report.reporter_id
    ELSE ~(/\ row.reporter_id = 0
           /\ row.is_anonymous = report.is_anonymous
           /\ row.reporter_phone = report.reporter_phone
           /\ row.timestamp = report.timestamp
           /\ row.latitude = report.latitude /\ row.longitude = report.longitude
           /\ row.description = report.description)

\* C25: corroboration counts only independent reports: the count a new
\* report is scored with leaves out the earlier submissions of its own
\* reporter and, for a report without a reporter, earlier identical
\* submissions, so that submitting a report again cannot raise its
\* cross-verification score.
C25_IndependentCorroboration ==
    [][\A p \in EditSubmissions :
          (CreateIncident(p) /\ response'.status = 201) =>
              lastEval'.nearby_count =
                  Cardinality({i \in 1..Len(incidents) :
                                  /\ C8_Matches(incidents[i], NewRow)
                                  /\ C25_Independent(incidents[i], NewRow)})]_vars

\* C26: verify_incident, unverify_incident and update_incident leave the
\* verification_score of every stored incident as create_incident computed
\* it, also when the update changes incident_type or description.
C26_ScoreFixedAtSubmission ==
    [][\A i \in 1..(MaxEditIncidents + 1), body \in UpdateBodies :
          (VerifyIncident(i) \/ UnverifyIncident(i) \/ UpdateIncident(i, body)) =>
              /\ Len(incidents') = Len(incidents)
              /\ \A k \in 1..Len(incidents) :
                    incidents'[k].verification_score = incidents[k].verification_score]_vars

\* C26 witness: the first incident was submitted as the base report and has
\* since been given another type and another description by an update and
\* been verified; it still carries the score of the base report, which is
\* not the score its present fields would be given.
C26_Witness ==
    /\ Len(incidents) >= 1
    /\ incidents[1].incident_type = "banditry"
    /\ incidents[1].description = DescShort
    /\ incidents[1].verified
    /\ incidents[1].verification_score = ScoreOf(BasePayload, Dec(50), <<>>).value
    /\ incidents[1].verification_score # ScoreOf(incidents[1], Dec(50), <<>>).value

\* C30: an incident submitted with is_anonymous = true is stored without
\* any reporter identity: reporter_id and reporter_phone are null, no
\* reporter row is created or changed, and it is scored with trust 0.5.
C30_AnonymousStoredWithoutIdentity ==
    [][\A p \in EditSubmissions :
          (p.is_anonymous /\ CreateIncident(p) /\ response'.status = 201) =>
              /\ NewRow.reporter_id = 0
              /\ NewRow.reporter_phone = None
              /\ users' = users
              /\ NewRow.verification_score = ScoreOf(p, Dec(50), incidents).value]_vars

\* C27: in every reachable state, every reporter has reports_verified +
\* reports_rejected <= reports_submitted and no negative counter, when
\* submissions go through create_incident and every reviewed incident
\* reaches update_reporter_trust_after_verification once.
C27_CountersConsistent ==
    \A u \in 1..Len(users) :
        /\ users[u].reports_submitted >= 0
        /\ users[u].reports_verified >= 0
        /\ users[u].reports_rejected >= 0
        /\ users[u].reports_verified + users[u].reports_rejected <= users[u].reports_submitted

====
